---- MODULE Spec2Model ----
(***************************************************************************)
(* Sale transaction engine of the pharmacy point of sale: carts, the       *)
(* commit of a cart as a sale (SaleService.validate_sale), cancellation    *)
(* (SaleService.cancel_sale), the stock operations of StockService and the *)
(* loyalty computations of LoyaltyService, over the tables of the SQLite   *)
(* store.  Every DatabaseManager.execute call commits on its own, so each  *)
(* storage call is one atomic step and the sessions (processes sharing the *)
(* database file) interleave between storage calls.                        *)
(*                                                                         *)
(* Amounts are integers counted in 1/100 of a cent, so that the product    *)
(* amount * percentage / 100 of apply_discount is exact and both rounding  *)
(* functions of the code (FormatUtils.round_currency, half-up; the builtin *)
(* round(x, 2), half-to-even on the double) are real conversions.  Prices  *)
(* are multiples of 0.25 and percentages multiples of 25, for which every  *)
(* double the code computes is exact, so round(x, 2) is half-to-even of    *)
(* the exact value.                                                        *)
(***************************************************************************)
EXTENDS Integers, Sequences, FiniteSets, TLC

\* ---------------------------------------------------------------- bounds
MaxStock == 1          \* add_stock is not offered above this quantity
MaxSales == 2          \* validate_sale is not offered once this many sales exist
MaxManual == 1         \* manual stock operations are offered until the ledger holds this many of them
MaxInitPoints == 2     \* initial loyalty balance of the customer is 0..MaxInitPoints
MaxAdjust == 2         \* the inventory count typed while a cart is filled is 0..MaxAdjust

\* ------------------------------------------------------- program constants
CENT == 100                       \* the 0.01 quantum of round_currency / round(x, 2)
UNIT == 100 * CENT                \* one currency unit
POINTS_PER_UNIT == 10             \* LOYALTY_CONFIG["points_per_unit"]

Sessions == {1, 2}
Meds == {1, 2}
Clients == {1}
NoClientId == 0                   \* client_id None
NoClient == [id |-> NoClientId, loyalty_points |-> 0]   \* Cart.client None
NoUser == "none"                  \* AuthService.get_current_user() is None

\* medicaments.selling_price: 20.25 and 0.25
selling_price(m) == IF m = 1 THEN 20 * UNIT + 25 * CENT ELSE 25 * CENT

\* loyalty_tiers rows
LoyaltyTiers ==
    { [name |-> "Argent", min_points |-> 2, discount_percentage |-> 50, is_active |-> TRUE],
      [name |-> "Or",     min_points |-> 4, discount_percentage |-> 25, is_active |-> TRUE],
      [name |-> "Ancien", min_points |-> 3, discount_percentage |-> 75, is_active |-> FALSE] }

VARIABLES
    stock,         \* medicaments.quantity_in_stock, by medicament id
    price,         \* medicaments.selling_price, by medicament id
    loyalty_tiers, \* table loyalty_tiers
    medicament_is_active,  \* medicaments.is_active, by medicament id
    client_is_active,      \* clients.is_active, by client id
    sales,         \* table sales: row i has id i
    sale_lines,    \* table sale_lines
    movements,     \* table stock_movements (the ledger)
    clients,       \* table clients: loyalty_points and total_spent by client id
    current_user,  \* AuthService current user's role, per session
    cart,          \* SaleService._cart, per session
    pc,            \* position of each session inside the running operation
    local,         \* local variables of the running operation, per session
    result,        \* what the step just taken returned to its caller: the session,
                   \* the operation and its outcome; NoResult when it returned nothing
    stock_writes,  \* history: number of UPDATEs of quantity_in_stock applied so far
    points0,       \* history: the loyalty_points of each client at start-up
    monitor        \* history, per sale: the stock and stock_writes when its commit
                   \* began, the number of stock UPDATEs its commit applied,
                   \* whether validate_sale returned success for it, and how many
                   \* cancel_sale calls returned success for it, how many line
                   \* quantities they gave back and how often they took its points

vars == <<stock, price, loyalty_tiers, medicament_is_active, client_is_active,
          sales, sale_lines, movements, clients,
          current_user, cart, pc, local, result, stock_writes, points0, monitor>>

\* the columns and the table that no sale operation writes, with the
\* start-up balances kept for reference
catalog == <<price, loyalty_tiers, medicament_is_active, client_is_active, points0>>
db == <<stock, sales, sale_lines, movements, clients>>

\* ------------------------------------------------------------ pure helpers
RECURSIVE SumSeq(_)
SumSeq(s) == IF s = <<>> THEN 0 ELSE Head(s) + SumSeq(Tail(s))

Max(a, b) == IF a >= b THEN a ELSE b

\* FormatUtils.round_currency: Decimal quantize to 0.01, ROUND_HALF_UP
round_currency(x) ==
    IF x >= 0 THEN ((x + CENT \div 2) \div CENT) * CENT
              ELSE -(((-x + CENT \div 2) \div CENT) * CENT)

\* builtin round(x, 2): nearest multiple of 0.01, a tie going to the even one
PyRound2(x) ==
    LET q == x \div CENT
        r == x % CENT
    IN  IF 2 * r < CENT THEN q * CENT
        ELSE IF 2 * r > CENT THEN (q + 1) * CENT
        ELSE IF q % 2 = 0 THEN q * CENT ELSE (q + 1) * CENT

\* CartItem.line_total
line_total(item) == round_currency(item.quantity * item.unit_price)

\* Cart.subtotal
subtotal(c) ==
    round_currency(SumSeq([i \in 1..Len(c.items) |-> line_total(c.items[i])]))

\* Cart.items_count
items_count(c) == SumSeq([i \in 1..Len(c.items) |-> c.items[i].quantity])

EmptyCart == [items |-> <<>>, client |-> NoClient]

\* a clear that keeps the customer
clear_items(c) == [c EXCEPT !.items = <<>>]

\* Cart.clear
clear(c) == EmptyCart

\* the query with ORDER BY min_points ascending
get_tier_lowest(points) ==
    LET ok == { t \in loyalty_tiers : t.is_active /\ t.min_points <= points }
    IN  { t \in ok : \A u \in ok : u.min_points >= t.min_points }

\* LoyaltyTierRepository.get_tier_for_points: the active tier of largest
\* min_points that is <= points; {} stands for None
get_tier_for_points(points) ==
    LET ok == { t \in loyalty_tiers : t.is_active /\ t.min_points <= points }
    IN  { t \in ok : \A u \in ok : u.min_points <= t.min_points }

\* LoyaltyService.get_client_discount (client is the Client object of the cart)
get_client_discount(client) ==
    LET tier == get_tier_for_points(client.loyalty_points)
    IN  IF tier = {} THEN 0 ELSE (CHOOSE t \in tier : TRUE).discount_percentage

\* LoyaltyService.apply_discount: <<final amount, percentage, discount amount>>
apply_discount(amount, client) ==
    IF client = NoClient \/ amount <= 0 THEN <<amount, 0, 0>>
    ELSE LET discount_percentage == get_client_discount(client)
             discount_amount == (amount * discount_percentage) \div 100
             final_amount == amount - discount_amount
         IN  IF discount_percentage <= 0 THEN <<amount, 0, 0>>
             ELSE <<PyRound2(final_amount), discount_percentage, PyRound2(discount_amount)>>

\* points counted by rounding up
calculate_points_rounded_up(amount) ==
    IF amount <= 0 \/ POINTS_PER_UNIT <= 0 THEN 0
    ELSE (amount + POINTS_PER_UNIT * UNIT - 1) \div (POINTS_PER_UNIT * UNIT)

\* LoyaltyService.calculate_points_earned
calculate_points_earned(amount) ==
    IF amount <= 0 \/ POINTS_PER_UNIT <= 0 THEN 0
    ELSE amount \div (POINTS_PER_UNIT * UNIT)

\* SaleService.calculate_totals
calculate_totals(c) ==
    LET sub == subtotal(c)
        disc == apply_discount(sub, c.client)
    IN  [subtotal |-> sub,
         discount_percentage |-> IF c.client # NoClient THEN disc[2] ELSE 0,
         discount_amount |-> IF c.client # NoClient THEN disc[3] ELSE 0,
         total |-> round_currency(IF c.client # NoClient THEN disc[1] ELSE sub),
         points_earned |-> IF c.client # NoClient
                           THEN calculate_points_earned(disc[1]) ELSE 0,
         items_count |-> items_count(c)]

\* the decimal digits of n >= 0
RECURSIVE Digits(_)
Digits(n) == IF n < 10 THEN <<n>> ELSE Append(Digits(n \div 10), n % 10)

\* f"{next_num:03d}": the digits, with zeros in front up to three of them
Format03(n) ==
    LET d == Digits(n)
        pad == IF Len(d) >= 3 THEN 0 ELSE 3 - Len(d)
    IN  [i \in 1..(pad + Len(d)) |-> IF i <= pad THEN 0 ELSE d[i - pad]]

\* CAST(SUBSTR(sale_number, 14) AS INTEGER): the number the digits write
RECURSIVE CastInteger(_)
CastInteger(d) ==
    IF d = <<>> THEN 0
    ELSE 10 * CastInteger(SubSeq(d, 1, Len(d) - 1)) + d[Len(d)]

\* SELECT MAX(CAST(SUBSTR(sale_number, 14) AS INTEGER)) over the sales of the
\* day; 0 stands for NULL
max_num(rows) ==
    LET nums == { CastInteger(rows[i].sale_number) : i \in 1..Len(rows) }
    IN  IF nums = {} THEN 0 ELSE CHOOSE n \in nums : \A k \in nums : k <= n

\* a numbering that starts at 000
generate_sale_number_from_zero(rows) ==
    Format03(IF rows # <<>> THEN max_num(rows) + 1 ELSE 0)

\* SaleRepository.generate_sale_number: the sequence part of the number of
\* the day, 1 + the largest one issued, 001 when there is none
generate_sale_number(rows) ==
    Format03(IF max_num(rows) # 0 THEN max_num(rows) + 1 ELSE 1)

\* the sale number is the identity of a sale: the INSERT of a number that a
\* row already carries is refused by the store
sale_number_taken(rows, sale_number) ==
    \E i \in 1..Len(rows) : rows[i].sale_number = sale_number

\* the UPDATE of update_stock without its WHERE ... >= 0
update_stock_unguarded(quantity_in_stock, quantity_change) == TRUE

\* MedicamentRepository.update_stock: WHERE (quantity_in_stock + ?) >= 0
update_stock_applies(quantity_in_stock, quantity_change) ==
    quantity_in_stock + quantity_change >= 0

\* ClientRepository.update_loyalty_points: WHERE (loyalty_points + ?) >= 0
update_loyalty_points_applies(loyalty_points, points_change) ==
    loyalty_points + points_change >= 0

\* a movement that loses the reference it was given
record_movement_unreferenced(ledger, medicament_id, movement_type, quantity, reason, reference_id) ==
    Append(ledger, [medicament_id |-> medicament_id, movement_type |-> movement_type,
                    quantity |-> quantity, reason |-> reason,
                    reference_id |-> 0])

\* a movement written over the last row of the ledger
record_movement_replacing(ledger, medicament_id, movement_type, quantity, reason, reference_id) ==
    LET row == [medicament_id |-> medicament_id, movement_type |-> movement_type,
                quantity |-> quantity, reason |-> reason,
                reference_id |-> reference_id]
    IN  IF ledger = <<>> THEN <<row>> ELSE [ledger EXCEPT ![Len(ledger)] = row]

\* StockService._record_movement + StockMovementRepository.create
record_movement(ledger, medicament_id, movement_type, quantity, reason, reference_id) ==
    Append(ledger, [medicament_id |-> medicament_id, movement_type |-> movement_type,
                    quantity |-> quantity, reason |-> reason,
                    reference_id |-> reference_id])

NoResult == [session |-> 0, op |-> "none", ok |-> TRUE, msg |-> ""]

Return(s, r) ==
    /\ result' = [session |-> s] @@ r
    /\ pc' = [pc EXCEPT ![s] = "idle"]
    /\ local' = [local EXCEPT ![s] = [op |-> "none"]]

Goto(s, label, l) ==
    /\ pc' = [pc EXCEPT ![s] = label]
    /\ local' = [local EXCEPT ![s] = l]
    /\ result' = NoResult

\* ------------------------------------------------------------------- Init
\* the tables but loyalty_tiers, and the sessions, after start-up
InitSessions ==
    /\ stock = [m \in Meds |-> MaxStock]
    /\ price = [m \in Meds |-> selling_price(m)]
    /\ sales = <<>>
    /\ sale_lines = <<>>
    /\ movements = <<>>
    /\ clients \in { [c \in Clients |-> [loyalty_points |-> p, total_spent |-> 0]] :
                         p \in 0..MaxInitPoints }
    /\ current_user = [s \in Sessions |-> "pharmacien"]
    /\ cart = [s \in Sessions |-> EmptyCart]
    /\ pc = [s \in Sessions |-> "idle"]
    /\ local = [s \in Sessions |-> [op |-> "none"]]
    /\ result = NoResult
    /\ stock_writes = 0
    /\ points0 = [c \in Clients |-> clients[c].loyalty_points]
    /\ monitor = <<>>

\* every medicament and every client is active
AllActive ==
    /\ medicament_is_active = [m \in Meds |-> TRUE]
    /\ client_is_active = [c \in Clients |-> TRUE]

Init == InitSessions /\ loyalty_tiers = LoyaltyTiers /\ AllActive

\* ------------------------------------------------------------ cart actions
\* an add_to_cart that forgets what the cart already holds
total_needed_forgetful(current_in_cart, quantity) == quantity

\* line 132 of add_to_cart: the quantity the stock has to cover
total_needed(current_in_cart, quantity) == current_in_cart + quantity

\* a search that never finds the medicament in the cart
CartIndexBlind(c, m) == 0

\* position of medicament m in the cart's items, 0 when absent
CartIndex(c, m) ==
    LET idx == { i \in 1..Len(c.items) : c.items[i].medicament_id = m }
    IN  IF idx = {} THEN 0 ELSE CHOOSE i \in idx : \A j \in idx : i <= j

\* an add_to_cart that only tests that the row exists
medicament_unavailable_if_missing(m) == m \notin DOMAIN stock

\* lines 116-121 of add_to_cart: get_by_id found no row, or the row is not active
medicament_unavailable(m) == m \notin DOMAIN stock \/ ~medicament_is_active[m]

\* SaleService.add_to_cart; a new CartItem keeps the Medicament object read
\* here (its quantity_in_stock) and its selling_price as unit_price
add_to_cart(s, m, quantity) ==
    /\ pc[s] = "idle"
    /\ LET i == CartIndex(cart[s], m)
           current_in_cart == IF i = 0 THEN 0 ELSE cart[s].items[i].quantity
       IN  IF quantity <= 0
           THEN /\ Return(s, [op |-> "add_to_cart", ok |-> FALSE, msg |-> "quantity",
                              medicament_id |-> m, quantity |-> quantity])
                /\ UNCHANGED cart
           ELSE IF medicament_unavailable(m)
           THEN /\ Return(s, [op |-> "add_to_cart", ok |-> FALSE, msg |-> "medicament",
                              medicament_id |-> m, quantity |-> quantity])
                /\ UNCHANGED cart
           ELSE IF stock[m] < total_needed(current_in_cart, quantity)
           THEN /\ Return(s, [op |-> "add_to_cart", ok |-> FALSE, msg |-> "stock",
                              medicament_id |-> m, quantity |-> quantity,
                              available |-> Max(0, stock[m] - current_in_cart)])
                /\ UNCHANGED cart
           ELSE /\ cart' = [cart EXCEPT ![s].items =
                               IF i # 0
                               THEN [@ EXCEPT ![i].quantity = @ + quantity]
                               ELSE Append(@, [medicament_id |-> m,
                                               quantity |-> quantity,
                                               unit_price |-> price[m],
                                               quantity_in_stock |-> stock[m]])]
                /\ Return(s, [op |-> "add_to_cart", ok |-> TRUE, msg |-> "",
                              medicament_id |-> m, quantity |-> quantity])
    /\ UNCHANGED <<db, current_user, stock_writes, monitor>>
    /\ UNCHANGED catalog

\* the items without the one at position i (list.pop(i))
WithoutItem(items, i) ==
    [k \in 1..(Len(items) - 1) |-> IF k < i THEN items[k] ELSE items[k + 1]]

\* SaleService.remove_from_cart
remove_from_cart(s, m) ==
    /\ pc[s] = "idle"
    /\ LET i == CartIndex(cart[s], m)
       IN  IF i # 0
           THEN /\ cart' = [cart EXCEPT ![s].items = WithoutItem(@, i)]
                /\ Return(s, [op |-> "remove_from_cart", ok |-> TRUE, msg |-> "",
                              medicament_id |-> m])
           ELSE /\ Return(s, [op |-> "remove_from_cart", ok |-> FALSE,
                              msg |-> "not in cart", medicament_id |-> m])
                /\ UNCHANGED cart
    /\ UNCHANGED <<db, current_user, stock_writes, monitor>>
    /\ UNCHANGED catalog

\* SaleService.update_cart_quantity: the stock it compares with is that of the
\* Medicament object the CartItem holds (line 189), no row is read
update_cart_quantity(s, m, quantity) ==
    /\ pc[s] = "idle"
    /\ LET i == CartIndex(cart[s], m)
       IN  IF quantity <= 0
           THEN IF i # 0
                THEN /\ cart' = [cart EXCEPT ![s].items = WithoutItem(@, i)]
                     /\ Return(s, [op |-> "update_cart_quantity", ok |-> TRUE,
                                   msg |-> "removed", medicament_id |-> m,
                                   quantity |-> quantity])
                ELSE /\ Return(s, [op |-> "update_cart_quantity", ok |-> FALSE,
                                   msg |-> "not in cart", medicament_id |-> m,
                                   quantity |-> quantity])
                     /\ UNCHANGED cart
           ELSE IF i = 0
           THEN /\ Return(s, [op |-> "update_cart_quantity", ok |-> FALSE,
                              msg |-> "not in cart", medicament_id |-> m,
                              quantity |-> quantity])
                /\ UNCHANGED cart
           ELSE IF cart[s].items[i].quantity_in_stock < quantity
           THEN /\ Return(s, [op |-> "update_cart_quantity", ok |-> FALSE,
                              msg |-> "stock", medicament_id |-> m,
                              quantity |-> quantity,
                              available |-> cart[s].items[i].quantity_in_stock])
                /\ UNCHANGED cart
           ELSE /\ cart' = [cart EXCEPT ![s].items[i].quantity = quantity]
                /\ Return(s, [op |-> "update_cart_quantity", ok |-> TRUE,
                              msg |-> "", medicament_id |-> m,
                              quantity |-> quantity])
    /\ UNCHANGED <<db, current_user, stock_writes, monitor>>
    /\ UNCHANGED catalog

\* SaleService.set_client: the cart keeps the Client object read here
set_client(s, c) ==
    /\ pc[s] = "idle"
    /\ IF c \notin DOMAIN clients \/ ~client_is_active[c]
       THEN /\ Return(s, [op |-> "set_client", ok |-> FALSE, msg |-> "client",
                          client_id |-> c])
            /\ UNCHANGED cart
       ELSE /\ cart' = [cart EXCEPT ![s].client =
                           [id |-> c, loyalty_points |-> clients[c].loyalty_points]]
            /\ Return(s, [op |-> "set_client", ok |-> TRUE, msg |-> "",
                          client_id |-> c])
    /\ UNCHANGED <<db, current_user, stock_writes, monitor>>
    /\ UNCHANGED catalog

\* ------------------------------------------------------------ AuthService
UserRoles == {"admin", "pharmacien", "vendeur"}

\* AuthService.login, when the credentials are those of an active user of the role
login(s, role) ==
    /\ pc[s] = "idle"
    /\ current_user' = [current_user EXCEPT ![s] = role]
    /\ Return(s, [op |-> "login", ok |-> TRUE, msg |-> ""])
    /\ UNCHANGED <<db, cart, stock_writes, monitor>>
    /\ UNCHANGED catalog

\* AuthService.logout
logout(s) ==
    /\ pc[s] = "idle"
    /\ current_user' = [current_user EXCEPT ![s] = NoUser]
    /\ Return(s, [op |-> "logout", ok |-> TRUE, msg |-> ""])
    /\ UNCHANGED <<db, cart, stock_writes, monitor>>
    /\ UNCHANGED catalog

\* ------------------------------------------------- StockService, manual use
ManualReasons == {"Reapprovisionnement", "Sortie manuelle", "Ajustement inventaire"}

ManualAllowed ==
    Cardinality({ i \in 1..Len(movements) : movements[i].reason \in ManualReasons })
        + Cardinality({ t \in Sessions : pc[t] \in {"r_update", "a_update"} })
      < MaxManual

\* a stock check that compares nothing
check_stock_always(quantity_in_stock, quantity) == TRUE

\* StockService.check_stock_availability
check_stock_availability(quantity_in_stock, quantity) == quantity_in_stock >= quantity

\* StockService.remove_stock, up to the stock test on the row it read
remove_stock_precheck(quantity_in_stock, quantity) ==
    quantity > 0 /\ quantity_in_stock >= quantity

\* StockService.add_stock: the row is incremented and an 'entry' is recorded
add_stock(s, m, quantity) ==
    /\ pc[s] = "idle"
    /\ ManualAllowed
    /\ stock[m] + quantity <= MaxStock
    /\ IF quantity > 0 /\ update_stock_applies(stock[m], quantity)
       THEN /\ stock' = [stock EXCEPT ![m] = @ + quantity]
            /\ movements' = record_movement(movements, m, "entry", quantity,
                                            "Reapprovisionnement", 0)
            /\ stock_writes' = stock_writes + 1
            /\ Return(s, [op |-> "add_stock", ok |-> TRUE, msg |-> ""])
       ELSE /\ Return(s, [op |-> "add_stock", ok |-> FALSE, msg |-> "refused"])
            /\ UNCHANGED <<stock, movements, stock_writes>>
    /\ UNCHANGED <<sales, sale_lines, clients, current_user, cart, monitor>>
    /\ UNCHANGED catalog

\* StockService.remove_stock, first part: get_by_id and the test on the row read
remove_stock_read(s, m, quantity) ==
    /\ pc[s] = "idle"
    /\ ManualAllowed
    /\ IF remove_stock_precheck(stock[m], quantity)
       THEN Goto(s, "r_update", [op |-> "remove_stock", medicament_id |-> m,
                                 quantity |-> quantity])
       ELSE Return(s, [op |-> "remove_stock", ok |-> FALSE, msg |-> "stock"])
    /\ UNCHANGED <<db, current_user, cart, stock_writes, monitor>>
    /\ UNCHANGED catalog

\* StockService.remove_stock, second part: update_stock(-quantity), then the 'exit'
remove_stock_update(s) ==
    /\ pc[s] = "r_update"
    /\ LET m == local[s].medicament_id
           quantity == local[s].quantity
       IN  IF update_stock_applies(stock[m], -quantity)
           THEN /\ stock' = [stock EXCEPT ![m] = @ - quantity]
                /\ movements' = record_movement(movements, m, "exit", -quantity,
                                                "Sortie manuelle", 0)
                /\ stock_writes' = stock_writes + 1
                /\ Return(s, [op |-> "remove_stock", ok |-> TRUE, msg |-> ""])
           ELSE /\ Return(s, [op |-> "remove_stock", ok |-> FALSE, msg |-> "update"])
                /\ UNCHANGED <<stock, movements, stock_writes>>
    /\ UNCHANGED <<sales, sale_lines, clients, current_user, cart, monitor>>
    /\ UNCHANGED catalog

\* StockService.adjust_stock, first part: get_by_id and the difference
adjust_stock_read(s, m, new_quantity) ==
    /\ pc[s] = "idle"
    /\ ManualAllowed
    /\ IF new_quantity < 0
       THEN Return(s, [op |-> "adjust_stock", ok |-> FALSE, msg |-> "negative"])
       ELSE IF new_quantity - stock[m] = 0
       THEN Return(s, [op |-> "adjust_stock", ok |-> TRUE, msg |-> "same"])
       ELSE Goto(s, "a_update", [op |-> "adjust_stock", medicament_id |-> m,
                                 new_quantity |-> new_quantity,
                                 difference |-> new_quantity - stock[m]])
    /\ UNCHANGED <<db, current_user, cart, stock_writes, monitor>>
    /\ UNCHANGED catalog

\* StockService.adjust_stock, second part: update() writes the row with the new
\* quantity, then the 'adjustment' of the difference computed on the row read
adjust_stock_update(s) ==
    /\ pc[s] = "a_update"
    /\ stock' = [stock EXCEPT ![local[s].medicament_id] = local[s].new_quantity]
    /\ movements' = record_movement(movements, local[s].medicament_id, "adjustment",
                                    local[s].difference, "Ajustement inventaire", 0)
    /\ stock_writes' = stock_writes + 1
    /\ Return(s, [op |-> "adjust_stock", ok |-> TRUE, msg |-> ""])
    /\ UNCHANGED <<sales, sale_lines, clients, current_user, cart, monitor>>
    /\ UNCHANGED catalog

\* ------------------------------------------- StockService.update_medicament
\* first part: get_by_id, the Medicament object gets the new selling price
update_medicament_read(s, m, selling) ==
    /\ pc[s] = "idle"
    /\ selling >= 0
    /\ selling # price[m]
    /\ Goto(s, "u_update", [op |-> "update_medicament", medicament_id |-> m,
                            selling_price |-> selling,
                            quantity_in_stock |-> stock[m]])
    /\ UNCHANGED <<db, current_user, cart, stock_writes, monitor>>
    /\ UNCHANGED catalog

\* second part: MedicamentRepository.update writes every column of the row
\* from the object, quantity_in_stock included
update_medicament_update(s) ==
    /\ pc[s] = "u_update"
    /\ price' = [price EXCEPT ![local[s].medicament_id] = local[s].selling_price]
    /\ stock' = [stock EXCEPT ![local[s].medicament_id] = local[s].quantity_in_stock]
    /\ stock_writes' = stock_writes + 1
    /\ Return(s, [op |-> "update_medicament", ok |-> TRUE, msg |-> ""])
    /\ UNCHANGED <<sales, sale_lines, movements, clients, current_user, cart,
                   monitor, loyalty_tiers, medicament_is_active,
                   client_is_active, points0>>

\* ------------------------------------ LoyaltyService.get_client_loyalty_info
\* LoyaltyService.get_client_tier; {} stands for None
get_client_tier(client) ==
    IF client = NoClient THEN {} ELSE get_tier_for_points(client.loyalty_points)

\* the client is read, then its tier: the row LIMIT 1 keeps of the rows that
\* come first in ORDER BY min_points DESC
get_client_loyalty_info(s, c) ==
    /\ pc[s] = "idle"
    /\ LET client == [id |-> c, loyalty_points |-> clients[c].loyalty_points]
           found == get_client_tier(client)
       IN  \E current_tier \in IF found = {} THEN {{}} ELSE { {r} : r \in found } :
              Return(s, [op |-> "get_client_loyalty_info", ok |-> TRUE, msg |-> "",
                         current_points |-> client.loyalty_points,
                         current_tier |-> current_tier,
                         current_discount |->
                             IF current_tier = {} THEN 0
                             ELSE (CHOOSE r \in current_tier : TRUE).discount_percentage])
    /\ UNCHANGED <<db, current_user, cart, stock_writes, monitor>>
    /\ UNCHANGED catalog

\* --------------------------------------------- SaleController.get_totals
\* totals that are computed and the cart emptied
get_totals_clearing(s) ==
    /\ pc[s] = "idle"
    /\ cart' = [cart EXCEPT ![s] = EmptyCart]
    /\ Return(s, [op |-> "get_totals", ok |-> TRUE, msg |-> "",
                  totals |-> calculate_totals(cart[s])])
    /\ UNCHANGED <<db, current_user, stock_writes, monitor>>
    /\ UNCHANGED catalog

\* SaleController.get_totals: SaleService.calculate_totals on the cart
get_totals(s) ==
    /\ pc[s] = "idle"
    /\ Return(s, [op |-> "get_totals", ok |-> TRUE, msg |-> "",
                  totals |-> calculate_totals(cart[s])])
    /\ UNCHANGED <<db, current_user, cart, stock_writes, monitor>>
    /\ UNCHANGED catalog

\* ------------------------------------------------ SaleService.validate_sale
ValidatesInFlight == Cardinality({ t \in Sessions : pc[t] = "v_insert" })

\* sale lines priced from the catalog at the commit
LinesOfCartRepriced(c, sale_id) ==
    [i \in 1..Len(c.items) |->
        [sale_id |-> sale_id,
         medicament_id |-> c.items[i].medicament_id,
         quantity |-> c.items[i].quantity,
         unit_price |-> price[c.items[i].medicament_id],
         line_total |-> round_currency(c.items[i].quantity
                                         * price[c.items[i].medicament_id])]]

\* the rows of sale_lines built from the cart for sale sale_id
LinesOfCart(c, sale_id) ==
    [i \in 1..Len(c.items) |->
        [sale_id |-> sale_id,
         medicament_id |-> c.items[i].medicament_id,
         quantity |-> c.items[i].quantity,
         unit_price |-> c.items[i].unit_price,
         line_total |-> line_total(c.items[i])]]

\* lines 262-295: the checks, the last stock check of every item, the totals
\* and the sale number
validate_sale_check(s) ==
    /\ pc[s] = "idle"
    /\ Len(sales) + ValidatesInFlight < MaxSales
    /\ IF cart[s].items = <<>>
       THEN Return(s, [op |-> "validate_sale", ok |-> FALSE, msg |-> "empty"])
       ELSE IF current_user[s] = NoUser
       THEN Return(s, [op |-> "validate_sale", ok |-> FALSE, msg |-> "user"])
       ELSE IF \E i \in 1..Len(cart[s].items) :
                 ~check_stock_availability(stock[cart[s].items[i].medicament_id],
                                           cart[s].items[i].quantity)
       THEN Return(s, [op |-> "validate_sale", ok |-> FALSE, msg |-> "stock"])
       ELSE Goto(s, "v_insert",
                 [op |-> "validate_sale",
                  totals |-> calculate_totals(cart[s]),
                  sale_number |-> generate_sale_number(sales),
                  before |-> stock, writes0 |-> stock_writes,
                  ledger0 |-> Len(movements)])
    /\ UNCHANGED <<db, current_user, cart, stock_writes, monitor>>
    /\ UNCHANGED catalog

\* SaleRepository.create, the INSERT INTO sales: committed by execute, or
\* raising (sqlite3.Error) on a number already taken, in which case nothing
\* is written and validate_sale's except clause returns the failure
validate_sale_insert(s) ==
    /\ pc[s] = "v_insert"
    /\ IF sale_number_taken(sales, local[s].sale_number)
       THEN /\ Return(s, [op |-> "validate_sale", ok |-> FALSE, msg |-> "error",
                          raised |-> "insert"])
            /\ UNCHANGED <<sales, monitor>>
       ELSE /\ sales' = Append(sales,
                   [sale_number |-> local[s].sale_number,
                    client_id |-> IF cart[s].client # NoClient THEN cart[s].client.id
                                  ELSE NoClientId,
                    subtotal |-> local[s].totals.subtotal,
                    discount_percentage |-> local[s].totals.discount_percentage,
                    discount_amount |-> local[s].totals.discount_amount,
                    total |-> local[s].totals.total,
                    loyalty_points_earned |-> local[s].totals.points_earned,
                    loyalty_points_used |-> 0,
                    status |-> "completed"])
            /\ monitor' = Append(monitor, [before |-> local[s].before,
                                           writes0 |-> local[s].writes0,
                                           ledger0 |-> local[s].ledger0,
                                           own |-> 0, validated |-> FALSE,
                                           cancels |-> 0, restocks |-> 0,
                                           deductions |-> 0])
            /\ Goto(s, "v_lines", [op |-> "validate_sale", totals |-> local[s].totals,
                                   sale_id |-> Len(sales) + 1])
    /\ UNCHANGED <<stock, sale_lines, movements, clients, current_user, cart,
                   stock_writes>>
    /\ UNCHANGED catalog

\* SaleRepository._create_lines, the executemany committed by execute_many
validate_sale_lines(s) ==
    /\ pc[s] = "v_lines"
    /\ sale_lines' = sale_lines \o LinesOfCart(cart[s], local[s].sale_id)
    /\ Goto(s, "v_stock", [op |-> "validate_sale", totals |-> local[s].totals,
                           sale_id |-> local[s].sale_id, i |-> 1, own |-> 0,
                           failed |-> 0])
    /\ UNCHANGED <<stock, sales, movements, clients, current_user, cart,
                   stock_writes, monitor>>
    /\ UNCHANGED catalog

\* execute_many raises (sqlite3.Error): its rollback finds the header already
\* committed; validate_sale's except clause returns the failure
validate_sale_lines_error(s) ==
    /\ pc[s] = "v_lines"
    /\ Return(s, [op |-> "validate_sale", ok |-> FALSE, msg |-> "error",
                  raised |-> "lines", sale_id |-> local[s].sale_id])
    /\ UNCHANGED <<db, current_user, cart, stock_writes, monitor>>
    /\ UNCHANGED catalog

\* line 313, remove_stock of item i, first part: get_by_id and the stock test
validate_sale_stock_read(s) ==
    /\ pc[s] = "v_stock"
    /\ LET item == cart[s].items[local[s].i]
       IN  IF remove_stock_precheck(stock[item.medicament_id], item.quantity)
           THEN Goto(s, "v_stock_update", local[s])
           ELSE IF local[s].i < Len(cart[s].items)
           THEN Goto(s, "v_stock", [local[s] EXCEPT !.i = @ + 1, !.failed = @ + 1])
           ELSE Goto(s, "v_client", [local[s] EXCEPT !.failed = @ + 1])
    /\ UNCHANGED <<db, current_user, cart, stock_writes, monitor>>
    /\ UNCHANGED catalog

\* line 313, remove_stock of item i, second part: update_stock and the 'exit'
\* movement; what remove_stock returns is not read by validate_sale
validate_sale_stock_update(s) ==
    /\ pc[s] = "v_stock_update"
    /\ LET item == cart[s].items[local[s].i]
           m == item.medicament_id
           applies == update_stock_applies(stock[m], -item.quantity)
           l == [local[s] EXCEPT !.own = IF applies THEN @ + 1 ELSE @,
                                 !.failed = IF applies THEN @ ELSE @ + 1]
       IN  /\ IF applies
              THEN /\ stock' = [stock EXCEPT ![m] = @ - item.quantity]
                   /\ movements' = record_movement(movements, m, "exit",
                                        -item.quantity, "Vente", local[s].sale_id)
                   /\ stock_writes' = stock_writes + 1
              ELSE UNCHANGED <<stock, movements, stock_writes>>
           /\ IF local[s].i < Len(cart[s].items)
              THEN Goto(s, "v_stock", [l EXCEPT !.i = @ + 1])
              ELSE Goto(s, "v_client", l)
    /\ UNCHANGED <<sales, sale_lines, clients, current_user, cart, monitor>>
    /\ UNCHANGED catalog

\* LoyaltyService.add_points_to_client: the new loyalty_points of the row
add_points_to_client(loyalty_points, amount) ==
    LET points == calculate_points_earned(amount)
    IN  IF points > 0 /\ update_loyalty_points_applies(loyalty_points, points)
        THEN loyalty_points + points ELSE loyalty_points

\* lines 321-337: points and total spent of the client, the cart is cleared
validate_sale_client(s) ==
    /\ pc[s] = "v_client"
    /\ IF cart[s].client # NoClient
       THEN clients' = [clients EXCEPT ![cart[s].client.id] =
                [loyalty_points |-> add_points_to_client(@.loyalty_points,
                                                         local[s].totals.total),
                 total_spent |-> @.total_spent + local[s].totals.total]]
       ELSE UNCHANGED clients
    /\ cart' = [cart EXCEPT ![s] = clear(@)]
    /\ monitor' = [monitor EXCEPT ![local[s].sale_id].own = local[s].own,
                                  ![local[s].sale_id].validated = TRUE]
    /\ Return(s, [op |-> "validate_sale", ok |-> TRUE, msg |-> "",
                  sale_id |-> local[s].sale_id,
                  failed_decrements |-> local[s].failed])
    /\ UNCHANGED <<stock, sales, sale_lines, movements, current_user, stock_writes>>
    /\ UNCHANGED catalog

\* -------------------------------------------------- SaleService.cancel_sale
\* get_lines without its WHERE sl.sale_id = ?
get_lines_unfiltered(sale_id) == sale_lines

\* SaleRepository.get_lines: the sale_lines rows of the sale, ordered by id
get_lines(sale_id) ==
    SelectSeq(sale_lines, LAMBDA l : l.sale_id = sale_id)

\* cancel_sale without its test of the status
never_cancelled(sale) == FALSE

\* line 357: the test on the status of the sale read
already_cancelled(sale) == sale.status = "cancelled"

\* lines 352-358: get_by_id (the sale with its lines) and the two refusals
cancel_sale_read(s, sale_id) ==
    /\ pc[s] = "idle"
    /\ IF sale_id \notin 1..Len(sales)
       THEN Return(s, [op |-> "cancel_sale", ok |-> FALSE, msg |-> "not found",
                      sale_id |-> sale_id])
       ELSE IF already_cancelled(sales[sale_id])
       THEN Return(s, [op |-> "cancel_sale", ok |-> FALSE,
                      msg |-> "already cancelled", sale_id |-> sale_id])
       ELSE Goto(s, "c_cancel", [op |-> "cancel_sale", sale_id |-> sale_id,
                                 sale |-> sales[sale_id],
                                 lines |-> get_lines(sale_id), i |-> 1, own |-> 0,
                                 committed |-> monitor[sale_id].validated])
    /\ UNCHANGED <<db, current_user, cart, stock_writes, monitor>>
    /\ UNCHANGED catalog

\* a controller that lets every caller through
permission_never_refused(role) == FALSE

\* SaleController.cancel_sale, lines 208-213: nobody logged in, or a 'vendeur'
permission_refused(role) == role = NoUser \/ role = "vendeur"

\* SaleController.cancel_sale: the permission test, then SaleService.cancel_sale
SaleController_cancel_sale(s, sale_id) ==
    IF permission_refused(current_user[s])
    THEN /\ pc[s] = "idle"
         /\ Return(s, [op |-> "cancel_sale", ok |-> FALSE, msg |-> "permission",
                       sale_id |-> sale_id])
         /\ UNCHANGED <<db, current_user, cart, stock_writes, monitor>>
         /\ UNCHANGED catalog
    ELSE cancel_sale_read(s, sale_id)

\* an UPDATE that also resets the amount of the cancelled sale
cancelled_row_zeroed(row) == [row EXCEPT !.status = "cancelled", !.total = 0]

\* SaleRepository.cancel: UPDATE sales SET status = 'cancelled', the row after it
cancelled_row(row) == [row EXCEPT !.status = "cancelled"]

\* line 361: SaleRepository.cancel, WHERE id = ?
cancel_sale_status(s) ==
    /\ pc[s] = "c_cancel"
    /\ sales' = [sales EXCEPT ![local[s].sale_id] = cancelled_row(@)]
    /\ Goto(s, IF local[s].lines = <<>> THEN "c_points" ELSE "c_stock", local[s])
    /\ UNCHANGED <<stock, sale_lines, movements, clients, current_user, cart,
                   stock_writes, monitor>>
    /\ UNCHANGED catalog

\* line 366: add_stock of line i, update_stock(+quantity) and the 'entry'
cancel_sale_stock(s) ==
    /\ pc[s] = "c_stock"
    /\ LET line == local[s].lines[local[s].i]
           m == line.medicament_id
           applies == line.quantity > 0 /\ update_stock_applies(stock[m], line.quantity)
           l == [local[s] EXCEPT !.own = IF applies THEN @ + 1 ELSE @]
       IN  /\ IF applies
              THEN /\ stock' = [stock EXCEPT ![m] = @ + line.quantity]
                   /\ movements' = record_movement(movements, m, "entry",
                                        line.quantity, "Annulation vente", 0)
                   /\ stock_writes' = stock_writes + 1
                   /\ monitor' = [monitor EXCEPT ![local[s].sale_id].restocks = @ + 1]
              ELSE UNCHANGED <<stock, movements, stock_writes, monitor>>
           /\ IF local[s].i < Len(local[s].lines)
              THEN Goto(s, "c_stock", [l EXCEPT !.i = @ + 1])
              ELSE Goto(s, "c_points", l)
    /\ UNCHANGED <<sales, sale_lines, clients, current_user, cart>>
    /\ UNCHANGED catalog

\* LoyaltyService.use_client_points: the new loyalty_points of the row
use_client_points(loyalty_points, points) ==
    IF points <= 0 THEN loyalty_points
    ELSE IF loyalty_points < points THEN loyalty_points
    ELSE IF update_loyalty_points_applies(loyalty_points, -points)
    THEN loyalty_points - points
    ELSE loyalty_points

\* a cancellation that also takes the amount of the sale back
client_refunded(row, sale) ==
    [loyalty_points |-> use_client_points(row.loyalty_points, sale.loyalty_points_earned),
     total_spent |-> row.total_spent - sale.total]

\* the clients row after the cancellation of the sale: use_client_points is
\* the only statement of cancel_sale that writes it
client_after_cancel(row, sale) ==
    [row EXCEPT !.loyalty_points = use_client_points(@, sale.loyalty_points_earned)]

\* lines 372-379: the points earned are taken back, success is returned
cancel_sale_points(s) ==
    /\ pc[s] = "c_points"
    /\ LET sale == local[s].sale
       IN  IF sale.client_id # NoClientId /\ sale.loyalty_points_earned > 0
           THEN clients' = [clients EXCEPT ![sale.client_id] =
                               client_after_cancel(@, sale)]
           ELSE UNCHANGED clients
    /\ monitor' = [monitor EXCEPT
                      ![local[s].sale_id].cancels = @ + 1,
                      ![local[s].sale_id].deductions =
                          IF clients' # clients THEN @ + 1 ELSE @]
    /\ Return(s, [op |-> "cancel_sale", ok |-> TRUE, msg |-> "",
                  sale_id |-> local[s].sale_id, own |-> local[s].own,
                  committed |-> local[s].committed])
    /\ UNCHANGED <<stock, sales, sale_lines, movements, current_user, cart,
                   stock_writes>>
    /\ UNCHANGED catalog

\* ------------------------------------------------------------ specification
Quantities == 1..MaxStock
SaleIds == 1..MaxSales

\* the operations of a till: the cart, the commit and the cancellation
Till(s, M, C) ==
    \/ \E m \in M, q \in Quantities : add_to_cart(s, m, q)
    \/ \E c \in C : set_client(s, c)
    \/ validate_sale_check(s)
    \/ validate_sale_insert(s)
    \/ validate_sale_lines(s)
    \/ validate_sale_lines_error(s)
    \/ validate_sale_stock_read(s)
    \/ validate_sale_stock_update(s)
    \/ validate_sale_client(s)

Cancel(s) ==
    \/ \E id \in SaleIds : cancel_sale_read(s, id)
    \/ cancel_sale_status(s)
    \/ cancel_sale_stock(s)
    \/ cancel_sale_points(s)

\* the stock operations of the back office
BackOffice(s, M) ==
    \/ \E m \in M, q \in Quantities : add_stock(s, m, q)
    \/ \E m \in M, q \in Quantities : remove_stock_read(s, m, q)
    \/ remove_stock_update(s)
    \/ \E m \in M, n \in -1..MaxStock : adjust_stock_read(s, m, n)
    \/ adjust_stock_update(s)

\* one till with customers, and a back office session on the same database,
\* both on medicament 1
Next ==
    \/ Till(1, {1}, Clients)
    \/ Cancel(1)
    \/ BackOffice(2, {1})

Spec == Init /\ [][Next]_vars

\* the cart operations of a till, with the quantities a user may type
CartQuantities == 0..(MaxAdjust + 1)

Basket(s, M) ==
    \/ \E m \in M, q \in CartQuantities : add_to_cart(s, m, q)
    \/ \E m \in M : remove_from_cart(s, m)
    \/ \E m \in M, q \in CartQuantities : update_cart_quantity(s, m, q)

\* the commit of the cart
Commit(s) ==
    \/ validate_sale_check(s)
    \/ validate_sale_insert(s)
    \/ validate_sale_lines(s)
    \/ validate_sale_lines_error(s)
    \/ validate_sale_stock_read(s)
    \/ validate_sale_stock_update(s)
    \/ validate_sale_client(s)

\* selling prices typed in the medicament form: 0.125
Prices == { 12 * CENT + CENT \div 2 }

\* the medicament form
Catalog(s, M) ==
    \/ \E m \in M, p \in Prices : update_medicament_read(s, m, p)
    \/ update_medicament_update(s)

\* one till filling a cart with both medicaments, while a second session
\* edits prices and adjusts the stock
NextCart ==
    \/ Basket(1, Meds)
    \/ Catalog(2, Meds)
    \/ \E n \in 0..MaxAdjust : adjust_stock_read(2, 1, n)
    \/ adjust_stock_update(2)

SpecCart == Init /\ [][NextCart]_vars

\* one till filling and committing carts of medicament 1, without customer,
\* while a second session edits its price and adjusts its stock
NextPrices ==
    \/ Basket(1, {1})
    \/ Commit(1)
    \/ Catalog(2, {1})
    \/ \E n \in 0..MaxAdjust : adjust_stock_read(2, 1, n)
    \/ adjust_stock_update(2)

SpecPrices == Init /\ [][NextPrices]_vars

\* rows a loyalty_tiers table may hold; two of them share min_points
TierRows ==
    { [name |-> "Bronze", min_points |-> 0, discount_percentage |-> 25, is_active |-> TRUE],
      [name |-> "Argent", min_points |-> 1, discount_percentage |-> 50, is_active |-> TRUE],
      [name |-> "Jade",   min_points |-> 1, discount_percentage |-> 75, is_active |-> TRUE],
      [name |-> "Or",     min_points |-> 2, discount_percentage |-> 50, is_active |-> FALSE],
      [name |-> "Platine", min_points |-> 3, discount_percentage |-> 75, is_active |-> TRUE] }

\* any table of those rows
InitTiers == InitSessions /\ loyalty_tiers \in SUBSET TierRows /\ AllActive

\* medicament 1 and the client may be inactive
InitGuards ==
    /\ InitSessions
    /\ loyalty_tiers = LoyaltyTiers
    /\ medicament_is_active \in { f \in [Meds -> BOOLEAN] : \A m \in Meds \ {1} : f[m] }
    /\ client_is_active \in [Clients -> BOOLEAN]

\* the ids a caller may pass: those of the rows and one that no row has
AnyMeds == {1, Cardinality(Meds) + 1}
AnyClients == Clients \cup {Cardinality(Clients) + 1}
AnySaleIds == 1..(MaxSales + 1)

\* one till whose user logs in and out, calling through the controller with
\* valid and invalid arguments
NextGuards ==
    \/ \E role \in UserRoles : login(1, role)
    \/ logout(1)
    \/ \E m \in AnyMeds, q \in 0..MaxStock : add_to_cart(1, m, q)
    \/ \E m \in AnyMeds : remove_from_cart(1, m)
    \/ \E c \in AnyClients : set_client(1, c)
    \/ get_totals(1)
    \/ validate_sale_check(1)
    \/ validate_sale_insert(1)
    \/ validate_sale_lines(1)
    \/ validate_sale_lines_error(1)
    \/ validate_sale_stock_read(1)
    \/ validate_sale_stock_update(1)
    \/ validate_sale_client(1)
    \/ \E id \in AnySaleIds : SaleController_cancel_sale(1, id)
    \/ cancel_sale_status(1)
    \/ cancel_sale_stock(1)
    \/ cancel_sale_points(1)

SpecGuards == InitGuards /\ [][NextGuards]_vars

\* the loyalty card of a customer and the discount on a cart, for every table
NextTiers ==
    \/ \E c \in Clients : get_client_loyalty_info(1, c)
    \/ \E q \in Quantities : add_to_cart(1, 1, q)
    \/ \E c \in Clients : set_client(1, c)
    \/ Commit(1)

SpecTiers == InitTiers /\ [][NextTiers]_vars

\* two tills on the same database, no customer
NextTills ==
    \E s \in Sessions : Till(s, {1}, {}) \/ Cancel(s)

SpecTills == Init /\ [][NextTills]_vars

\* one till with customers, cancellations started from two sessions
NextCancel ==
    Till(1, {1}, Clients) \/ Cancel(1) \/ Cancel(2)

SpecCancel == Init /\ [][NextCancel]_vars

\* one till with customers selling both medicaments, alone on the database
NextLines ==
    Till(1, Meds, Clients) \/ Cancel(1)

SpecLines == Init /\ [][NextLines]_vars

\* ----------------------------------------------------------------- claims
\* the step is taken by session s and leaves the position "from"
Leaves(s, from) == pc[s] = from /\ pc'[s] # from

\* session s calls validate_sale in this step
ValidateCall(s) ==
    /\ pc[s] = "idle"
    /\ \/ pc'[s] = "v_insert"
       \/ pc'[s] = "idle" /\ result'.op = "validate_sale" /\ result'.session = s

\* session s calls cancel_sale(id) in this step
CancelCall(s, id) ==
    /\ pc[s] = "idle"
    /\ \/ pc'[s] = "c_cancel" /\ local'[s].sale_id = id
       \/ /\ pc'[s] = "idle" /\ result'.op = "cancel_sale"
          /\ result'.session = s /\ result'.sale_id = id

\* the step is one of session s
StepOf(s) == pc'[s] # pc[s] \/ local'[s] # local[s] \/ result'.session = s

\* the step is one of a cancel_sale that session s runs
CancelStep(s) ==
    /\ StepOf(s)
    /\ \/ pc[s] \in {"c_cancel", "c_stock", "c_points"}
       \/ pc[s] = "idle" /\ pc'[s] = "c_cancel"
       \/ pc[s] = "idle" /\ pc'[s] = "idle" /\ result'.op = "cancel_sale"

\* the decrement session s is about to send to update_stock
PendingDecrement(s) ==
    IF pc[s] = "r_update"
    THEN [medicament_id |-> local[s].medicament_id, quantity |-> local[s].quantity]
    ELSE [medicament_id |-> cart[s].items[local[s].i].medicament_id,
          quantity |-> cart[s].items[local[s].i].quantity]

\* C1: the quantity in stock of every medicament is >= 0 in every reachable
\* state, and a decrement that would take it below zero is refused and leaves
\* every quantity as it was.
C1_StockNeverNegative ==
    /\ [](\A m \in Meds : stock[m] >= 0)
    /\ [][\A s \in Sessions :
            (Leaves(s, "r_update") \/ Leaves(s, "v_stock_update"))
            /\ stock[PendingDecrement(s).medicament_id] < PendingDecrement(s).quantity
            => stock' = stock]_vars

\* a decrement passed the test of remove_stock on the row read, and was then
\* refused by update_stock because the stock had gone in between
C1_Witness ==
    /\ result.op = "remove_stock" /\ ~result.ok /\ result.msg = "update"
    /\ stock[1] = 0

\* the sale is one line of quantity 1 of medicament 1
OneUnitSale(id) ==
    /\ Len(get_lines(id)) = 1
    /\ get_lines(id)[1].medicament_id = 1
    /\ get_lines(id)[1].quantity = 1

\* C2: two validate_sale calls, each with a cart of quantity 1 of the same
\* medicament, that both found its stock at 1 with no stock change between
\* their checks, do not both return success.
C2_AtMostOneSalePerUnit ==
    \A i, j \in 1..Len(sales) :
        /\ i # j
        /\ OneUnitSale(i) /\ OneUnitSale(j)
        /\ monitor[i].before[1] = 1 /\ monitor[j].before[1] = 1
        /\ monitor[i].writes0 = monitor[j].writes0
        => ~(monitor[i].validated /\ monitor[j].validated)

\* C3: validate_sale does not return success when a stock decrement of one
\* of its lines failed after the sale was persisted.
C3_FailedDecrementReported ==
    result.op = "validate_sale" /\ result.ok => result.failed_decrements = 0

\* C4: every persisted sale has its lines persisted, and every persisted
\* line belongs to a persisted sale (the state between the two inserts of one
\* running create is not counted).
C4_SaleWithItsLines ==
    /\ \A id \in 1..Len(sales) :
          \/ get_lines(id) # <<>>
          \/ \E s \in Sessions : pc[s] = "v_lines" /\ local[s].sale_id = id
    /\ \A k \in 1..Len(sale_lines) : sale_lines[k].sale_id \in 1..Len(sales)

\* C5: every persisted sale has discount_amount = subtotal x percentage / 100
\* rounded half-up to 2 decimals, total = subtotal - discount_amount, and
\* subtotal, discount_amount and total >= 0.
C5_SaleAmounts ==
    \A id \in 1..Len(sales) :
        /\ sales[id].discount_amount =
              round_currency((sales[id].subtotal * sales[id].discount_percentage) \div 100)
        /\ sales[id].total = sales[id].subtotal - sales[id].discount_amount
        /\ sales[id].subtotal >= 0
        /\ sales[id].discount_amount >= 0
        /\ sales[id].total >= 0

\* a cancellation of sale id, called after the validate_sale that created the
\* sale had returned success, has just returned success, and the stock
\* UPDATEs applied since that commit began are those of the commit and its own
RoundTrip(id) ==
    /\ result.op = "cancel_sale" /\ result.ok /\ result.sale_id = id
    /\ result.committed
    /\ stock_writes = monitor[id].writes0 + monitor[id].own + result.own

\* C6: after a successful validate_sale and a successful cancel_sale of the
\* sale it created, with no other stock operation since the commit began,
\* every medicament has the quantity in stock it had before the commit.
C6_CommitCancelRestoresStock ==
    \A id \in 1..Len(sales) :
        RoundTrip(id) => \A m \in Meds : stock[m] = monitor[id].before[m]

\* a round trip of a sale of two lines
C6_Witness ==
    \E id \in 1..Len(sales) :
        RoundTrip(id) /\ Len(get_lines(id)) = 2 /\ result.own = 2

\* C7: cancel_sale of a sale whose status is 'cancelled' returns the failure
\* "already cancelled" and changes no table: sales, stock, ledger, clients.
C7_CancelTwiceIsRefused ==
    [][\A s \in Sessions, id \in SaleIds :
          CancelCall(s, id) /\ id <= Len(sales) /\ sales[id].status = "cancelled"
          => /\ pc'[s] = "idle"
             /\ ~result'.ok /\ result'.msg = "already cancelled"
             /\ UNCHANGED db]_vars

\* a cancellation of a cancelled sale was refused
C7_Witness ==
    /\ result.op = "cancel_sale" /\ ~result.ok /\ result.msg = "already cancelled"
    /\ sales[result.sale_id].status = "cancelled"

\* C8: a sale is created 'completed' by the INSERT of validate_sale, its
\* status changes only from 'completed' to 'cancelled' and only in the
\* UPDATE of cancel_sale, and no step changes its amounts, its points or,
\* once create has written them, its lines.
C8_SaleLedgerEntry ==
    [][/\ Len(sales') >= Len(sales)
       /\ \A id \in 1..Len(sales) :
            /\ [sales'[id] EXCEPT !.status = "x"] = [sales[id] EXCEPT !.status = "x"]
            /\ sales'[id].status # sales[id].status
                  => /\ sales[id].status = "completed"
                     /\ sales'[id].status = "cancelled"
                     /\ \E s \in Sessions : Leaves(s, "c_cancel")
                                              /\ local[s].sale_id = id
            /\ get_lines(id) # <<>> => get_lines(id)' = get_lines(id)
       /\ \A id \in (Len(sales) + 1)..Len(sales') :
            /\ sales'[id].status = "completed"
            /\ \E s \in Sessions : Leaves(s, "v_insert")]_vars

\* a cancelled sale with its lines, next to a second sale
C8_Witness ==
    /\ Len(sales) = 2
    /\ sales[1].status = "cancelled" /\ get_lines(1) # <<>>
    /\ sales[1].loyalty_points_earned > 0

\* C9: validate_sale called with a cart line whose quantity exceeds the
\* stock of its medicament returns failure and changes neither a table nor
\* the cart.
C9_InsufficientStockAborts ==
    [][\A s \in Sessions :
          /\ ValidateCall(s)
          /\ \E i \in 1..Len(cart[s].items) :
                cart[s].items[i].quantity > stock[cart[s].items[i].medicament_id]
          => /\ pc'[s] = "idle"
             /\ ~result'.ok
             /\ UNCHANGED db
             /\ cart' = cart]_vars

\* validate_sale was refused for stock after another cart had committed
C9_Witness ==
    /\ result.op = "validate_sale" /\ ~result.ok /\ result.msg = "stock"
    /\ cart[result.session].items # <<>>
    /\ \E id \in 1..Len(sales) : monitor[id].validated

\* C10: the step of a successful cancel_sale that takes back the P > 0
\* points of a sale with a customer leaves the balance at max(0, balance - P).
C10_PointsClampedAtZero ==
    [][\A s \in Sessions :
          /\ Leaves(s, "c_points")
          /\ local[s].sale.client_id # NoClientId
          /\ local[s].sale.loyalty_points_earned > 0
          => clients'[local[s].sale.client_id].loyalty_points =
               Max(0, clients[local[s].sale.client_id].loyalty_points
                        - local[s].sale.loyalty_points_earned)]_vars

\* C11: no step of cancel_sale changes the total_spent of a customer.
C11_CancelKeepsTotalSpent ==
    [][\A s \in Sessions :
          CancelStep(s) =>
              \A c \in Clients : clients'[c].total_spent = clients[c].total_spent]_vars

\* a sale of a customer was cancelled, its points taken back, and the amount
\* it added to total_spent is still there
C11_Witness ==
    /\ result.op = "cancel_sale" /\ result.ok
    /\ sales[result.sale_id].client_id \in Clients
    /\ sales[result.sale_id].loyalty_points_earned > 0
    /\ clients[sales[result.sale_id].client_id].total_spent >= sales[result.sale_id].total
    /\ sales[result.sale_id].total > 0

\* the quantity of medicament m that the cart holds, over all its lines
QuantityInCart(c, m) ==
    SumSeq([i \in 1..Len(c.items) |->
               IF c.items[i].medicament_id = m THEN c.items[i].quantity ELSE 0])

\* C12: add_to_cart(m, q) with q > 0 succeeds exactly when the quantity of m
\* in the cart plus q is at most the stock of m at the call, and the cart
\* then holds that sum; when it fails the cart is unchanged and the amount
\* reported available is max(0, stock - quantity in the cart).
C12_AddToCartWithinStock ==
    [][\A s \in Sessions :
          /\ result'.op = "add_to_cart" /\ result'.session = s
          /\ result'.quantity > 0
          => LET m == result'.medicament_id
                 q == result'.quantity
                 held == QuantityInCart(cart[s], m)
             IN  /\ result'.ok <=> held + q <= stock[m]
                 /\ result'.ok => QuantityInCart(cart'[s], m) = held + q
                 /\ ~result'.ok =>
                       /\ cart' = cart
                       /\ result'.available = Max(0, stock[m] - held)]_vars

\* one more than the remaining stock was asked for and refused
C12_Witness ==
    /\ result.op = "add_to_cart" /\ ~result.ok /\ result.msg = "stock"
    /\ result.available >= 1
    /\ result.quantity = result.available + 1

\* C13: update_cart_quantity(m, q) with q > 0 on a line of the cart succeeds
\* only if q is at most the quantity_in_stock of m in the catalog at the call;
\* otherwise it fails for insufficient stock and the cart is unchanged.
C13_UpdateQuantityWithinLiveStock ==
    [][\A s \in Sessions :
          /\ result'.op = "update_cart_quantity" /\ result'.session = s
          /\ result'.quantity > 0
          /\ QuantityInCart(cart[s], result'.medicament_id) > 0
          => /\ result'.ok => result'.quantity <= stock[result'.medicament_id]
             /\ result'.quantity > stock[result'.medicament_id]
                   => ~result'.ok /\ result'.msg = "stock" /\ cart' = cart]_vars

\* C14: the subtotal of every cart is the sum of quantity x unit_price over
\* its lines, rounded half-up to 2 decimals.
C14_SubtotalIsRoundedSum ==
    \A s \in Sessions :
        subtotal(cart[s]) =
            round_currency(SumSeq([i \in 1..Len(cart[s].items) |->
                cart[s].items[i].quantity * cart[s].items[i].unit_price]))

\* C15: every cart holds at most one line per medicament and every line has
\* a quantity >= 1; an add_to_cart of a medicament the cart holds raises the
\* quantity of its line and appends nothing.
C15_OneLinePerMedicament ==
    /\ [](\A s \in Sessions : \A i, j \in 1..Len(cart[s].items) :
            /\ cart[s].items[i].quantity >= 1
            /\ cart[s].items[i].medicament_id = cart[s].items[j].medicament_id => i = j)
    /\ [][\A s \in Sessions :
            /\ result'.op = "add_to_cart" /\ result'.session = s /\ result'.ok
            /\ QuantityInCart(cart[s], result'.medicament_id) > 0
            => Len(cart'[s].items) = Len(cart[s].items)]_vars

\* a second add_to_cart of the same medicament was accepted
C15_Witness ==
    /\ result.op = "add_to_cart" /\ result.ok
    /\ \E i \in 1..Len(cart[result.session].items) :
          /\ cart[result.session].items[i].medicament_id = result.medicament_id
          /\ cart[result.session].items[i].quantity > result.quantity

\* the lines of the cart for medicament m
LinesFor(c, m) == { i \in 1..Len(c.items) : c.items[i].medicament_id = m }

\* C16: the unit_price of a cart line is the selling price of the medicament
\* at the step that added the line, no later step changes it while the line
\* is in the cart, and the sale lines inserted at the commit carry the
\* unit_price of the cart lines.
C16_UnitPriceCapturedAtAdd ==
    [][\A s \in Sessions :
          /\ \A m \in Meds : \A j \in LinesFor(cart'[s], m) :
                IF LinesFor(cart[s], m) = {}
                THEN cart'[s].items[j].unit_price = price[m]
                ELSE \A i \in LinesFor(cart[s], m) :
                        cart'[s].items[j].unit_price = cart[s].items[i].unit_price
          /\ Leaves(s, "v_lines") /\ pc'[s] = "v_stock"
                => /\ Len(sale_lines') = Len(sale_lines) + Len(cart[s].items)
                   /\ \A i \in 1..Len(cart[s].items) :
                         LET line == sale_lines'[Len(sale_lines) + i]
                         IN  /\ line.medicament_id = cart[s].items[i].medicament_id
                             /\ line.unit_price = cart[s].items[i].unit_price]_vars

\* a sale was committed with a line of quantity 2 whose unit_price is no
\* longer the selling price of the medicament
C16_Witness ==
    /\ result.op = "validate_sale" /\ result.ok
    /\ \E k \in 1..Len(sale_lines) :
          /\ sale_lines[k].sale_id = result.sale_id
          /\ sale_lines[k].quantity = 2
          /\ sale_lines[k].unit_price # price[sale_lines[k].medicament_id]
          /\ sale_lines[k].unit_price = selling_price(sale_lines[k].medicament_id)

\* the step is one of a validate_sale that session s runs
ValidateStep(s) ==
    /\ StepOf(s)
    /\ \/ pc[s] \in {"v_insert", "v_lines", "v_stock", "v_stock_update", "v_client"}
       \/ ValidateCall(s)

\* C17: the step that ends a successful validate_sale adds to the customer of
\* the sale exactly the sale's loyalty_points_earned, which is
\* floor(total / points_per_unit), and adds the sale's total to total_spent;
\* a sale without customer records 0 points; no other step of validate_sale
\* changes a customer.
C17_PointsAndSpendAtCommit ==
    [][\A s \in Sessions :
          ValidateStep(s) =>
              IF Leaves(s, "v_client")
              THEN LET sale == sales[local[s].sale_id]
                       c == sale.client_id
                   IN  IF c # NoClientId
                       THEN /\ sale.loyalty_points_earned =
                                  sale.total \div (POINTS_PER_UNIT * UNIT)
                            /\ clients'[c].loyalty_points =
                                  clients[c].loyalty_points + sale.loyalty_points_earned
                            /\ clients'[c].total_spent =
                                  clients[c].total_spent + sale.total
                            /\ \A d \in Clients \ {c} : clients'[d] = clients[d]
                       ELSE /\ clients' = clients
                            /\ sale.loyalty_points_earned = 0
              ELSE clients' = clients]_vars

\* a sale of 20.25 to a customer earned 2 points, not 3
C17_Witness ==
    /\ result.op = "validate_sale" /\ result.ok
    /\ sales[result.sale_id].client_id \in Clients
    /\ sales[result.sale_id].total = 20 * UNIT + 25 * CENT
    /\ sales[result.sale_id].loyalty_points_earned = 2
    /\ clients[sales[result.sale_id].client_id].loyalty_points >= 2

\* the active tiers of the table that a balance of points reaches
Qualifying(points) ==
    { t \in loyalty_tiers : t.is_active /\ t.min_points <= points }

\* tier is what the selection may return for the balance: an active tier
\* reached by it with no qualifying tier above, or none when none qualifies
RightTier(tier, points) ==
    IF Qualifying(points) = {} THEN tier = {}
    ELSE \E t \in Qualifying(points) :
            /\ tier = {t}
            /\ \A u \in Qualifying(points) : u.min_points <= t.min_points

\* balances the selection is asked about
TierPoints == 0..(MaxInitPoints + 2)

\* C18: for every balance P and every table, each tier the selection may
\* return for P is an active tier with min_points <= P below which no other
\* qualifying active tier is skipped, and there is none exactly when no
\* active tier qualifies, the discount then being 0; the loyalty card shown
\* for a customer carries such a tier and its percentage.
C18_TierSelection ==
    /\ \A P \in TierPoints :
          /\ \A t \in get_tier_for_points(P) : RightTier({t}, P)
          /\ get_tier_for_points(P) = {} <=> Qualifying(P) = {}
          /\ Qualifying(P) = {}
                => get_client_discount([id |-> 1, loyalty_points |-> P]) = 0
          /\ Qualifying(P) # {}
                => \E t \in Qualifying(P) :
                      /\ RightTier({t}, P)
                      /\ get_client_discount([id |-> 1, loyalty_points |-> P])
                            = t.discount_percentage
    /\ result.op = "get_client_loyalty_info"
          => /\ RightTier(result.current_tier, result.current_points)
             /\ result.current_tier = {} => result.current_discount = 0
             /\ \A t \in result.current_tier :
                   result.current_discount = t.discount_percentage

\* a card shows a tier above a lower qualifying one and below an inactive
\* one that the balance reaches too
C18_Witness ==
    /\ result.op = "get_client_loyalty_info"
    /\ \E t \in result.current_tier :
          /\ \E u \in Qualifying(result.current_points) : u.min_points < t.min_points
          /\ \E v \in loyalty_tiers :
                /\ ~v.is_active
                /\ t.min_points < v.min_points
                /\ v.min_points <= result.current_points

\* the rows the ledger gained after its first n
LedgerSince(n) == SubSeq(movements', n + 1, Len(movements'))

\* C19: at the step that ends a successful validate_sale during which no
\* other stock write happened, every decrement of the commit was applied,
\* the stock of every cart line (m, q) is q below what it was when the commit
\* started, and the ledger gained exactly one row per cart line, in cart
\* order, each an 'exit' of -q on m whose reference_id is the id of the new
\* sale; the stock of a medicament outside the cart is unchanged.
C19_CommitDecrementsAndRecords ==
    [][\A s \in Sessions :
          LET id == local[s].sale_id
              items == cart[s].items
          IN  /\ Leaves(s, "v_client")
              /\ stock_writes = monitor[id].writes0 + local[s].own
              => /\ local[s].failed = 0
                 /\ \A m \in Meds :
                       stock[m] = monitor[id].before[m] - QuantityInCart(cart[s], m)
                 /\ Len(LedgerSince(monitor[id].ledger0)) = Len(items)
                 /\ \A i \in 1..Len(items) :
                       LET row == LedgerSince(monitor[id].ledger0)[i]
                       IN  /\ row.medicament_id = items[i].medicament_id
                           /\ row.movement_type = "exit"
                           /\ row.quantity = -items[i].quantity
                           /\ row.reference_id = id]_vars

\* a sale of two lines was committed and the two last rows of the ledger are
\* its exits
C19_Witness ==
    /\ result.op = "validate_sale" /\ result.ok
    /\ result.failed_decrements = 0
    /\ Len(get_lines(result.sale_id)) = 2
    /\ Len(movements) >= 2
    /\ \A k \in {Len(movements) - 1, Len(movements)} :
          /\ movements[k].movement_type = "exit"
          /\ movements[k].reference_id = result.sale_id
          /\ movements[k].quantity < 0
    /\ movements[Len(movements) - 1].medicament_id # movements[Len(movements)].medicament_id

\* a is an initial part of b
IsPrefix(a, b) ==
    /\ Len(a) <= Len(b)
    /\ \A k \in 1..Len(a) : a[k] = b[k]

\* C20: every step leaves the rows already in the ledger as they are; each
\* restocking step of cancel_sale appends one 'entry' of +q on the
\* medicament of its line (m, q) and no other step of cancel_sale touches the
\* ledger; a cancel_sale that returns success has done so once for every line
\* it read, which for a committed sale are all the lines of the sale.
C20_LedgerAppendOnly ==
    [][/\ IsPrefix(movements, movements')
       /\ \A s \in Sessions :
             CancelStep(s) =>
                /\ IF pc[s] = "c_stock"
                   THEN LET line == local[s].lines[local[s].i]
                            row == movements'[Len(movements')]
                        IN  /\ Len(movements') = Len(movements) + 1
                            /\ row.medicament_id = line.medicament_id
                            /\ row.movement_type = "entry"
                            /\ row.quantity = line.quantity
                            /\ line.quantity > 0
                            /\ local'[s].own = local[s].own + 1
                   ELSE movements' = movements
                /\ Leaves(s, "c_points")
                      => /\ local[s].own = Len(local[s].lines)
                         /\ local[s].committed
                               => /\ local[s].lines = get_lines(local[s].sale_id)
                                  /\ local[s].lines # <<>>]_vars

\* after the cancellation of a committed sale the ledger holds the 'exit' of
\* the commit and, after it, the 'entry' of the cancellation
C20_Witness ==
    /\ result.op = "cancel_sale" /\ result.ok /\ result.committed
    /\ \E j, k \in 1..Len(movements) :
          /\ j < k
          /\ movements[j].movement_type = "exit"
          /\ movements[j].reference_id = result.sale_id
          /\ movements[k].movement_type = "entry"
          /\ movements[k].medicament_id = movements[j].medicament_id
          /\ movements[k].quantity = -movements[j].quantity

\* everything but the position, the locals and the returned value of a session
Stored == <<db, catalog, cart, current_user, stock_writes, monitor>>

\* the call returned failure and left the carts and the stored state alone
RefusedUnchanged(s) ==
    /\ result'.session = s
    /\ ~result'.ok
    /\ pc'[s] = "idle"
    /\ Stored' = Stored

\* C21: a call that starts with an argument or a state that fails validation
\* returns failure and leaves the carts and every table unchanged: add_to_cart
\* with quantity <= 0 or with a medicament that has no row or is inactive,
\* remove_from_cart of a medicament that is not in the cart, set_client with a
\* client that has no row or is inactive, cancel_sale of a sale that has no
\* row, validate_sale with an empty cart or with nobody logged in.
C21_FailedValidationChangesNothing ==
    [][\A s \in Sessions :
          /\ pc[s] = "idle"
          /\ result' # NoResult
          /\ result'.session = s
          => /\ /\ result'.op = "add_to_cart"
                /\ \/ result'.quantity <= 0
                   \/ result'.medicament_id \notin Meds
                   \/ ~medicament_is_active[result'.medicament_id]
                => RefusedUnchanged(s)
             /\ /\ result'.op = "remove_from_cart"
                /\ \A i \in 1..Len(cart[s].items) :
                       cart[s].items[i].medicament_id # result'.medicament_id
                => RefusedUnchanged(s)
             /\ /\ result'.op = "set_client"
                /\ \/ result'.client_id \notin Clients
                   \/ ~client_is_active[result'.client_id]
                => RefusedUnchanged(s)
             /\ /\ result'.op = "cancel_sale"
                /\ result'.sale_id \notin 1..Len(sales)
                => RefusedUnchanged(s)
             /\ /\ result'.op = "validate_sale"
                /\ cart[s].items = <<>> \/ current_user[s] = NoUser
                => RefusedUnchanged(s)]_vars

\* with a line and a customer in the cart, a sale on record and nobody logged
\* in, validate_sale was refused
C21_Witness ==
    /\ result.op = "validate_sale" /\ ~result.ok /\ result.msg = "user"
    /\ cart[result.session].items # <<>>
    /\ cart[result.session].client # NoClient
    /\ sales # <<>>

\* C22: the step on which validate_sale returns success leaves the cart of
\* the session without items and without customer; every other step of
\* validate_sale, the ones on which it returns failure included, leaves the
\* items and the customer of the cart as they were, so that a failed call
\* ends with the cart it began with; no step of validate_sale touches the
\* cart of another session.
C22_CartAfterValidate ==
    [][\A s \in Sessions :
          ValidateStep(s) =>
             /\ \A t \in Sessions \ {s} : cart'[t] = cart[t]
             /\ IF result' # NoResult /\ result'.ok
                THEN /\ Leaves(s, "v_client")
                     /\ cart'[s].items = <<>>
                     /\ cart'[s].client = NoClient
                ELSE /\ cart'[s].items = cart[s].items
                     /\ cart'[s].client = cart[s].client]_vars

\* a cart with a customer was committed and is now empty, without customer
C22_Witness ==
    /\ result.op = "validate_sale" /\ result.ok
    /\ sales[result.sale_id].client_id # NoClientId
    /\ cart[result.session] = EmptyCart

\* a commit that failed after its first storage call left the cart as it was
C22_WitnessFailure ==
    /\ result.op = "validate_sale" /\ ~result.ok /\ result.msg = "error"
    /\ cart[result.session].items # <<>>
    /\ cart[result.session].client # NoClient

\* C23: a call of calculate_totals leaves the carts and every table as they
\* were, and the totals it returns (subtotal, discount_percentage,
\* discount_amount, total, points_earned, items_count) are those a second
\* call made right after it returns.
C23_TotalsReadOnly ==
    [][\A s \in Sessions :
          /\ pc[s] = "idle"
          /\ result' # NoResult
          /\ result'.session = s
          /\ result'.op = "get_totals"
          => /\ Stored' = Stored
             /\ pc'[s] = "idle"
             /\ result'.totals = calculate_totals(cart[s])'
             /\ result.op = "get_totals" /\ result.session = s
                   => result'.totals = result.totals]_vars

\* the totals of a cart with a line and a customer who has a discount
C23_Witness ==
    /\ result.op = "get_totals"
    /\ result.totals.items_count > 0
    /\ result.totals.discount_percentage > 0
    /\ result.totals.discount_amount > 0
    /\ result.totals.total < result.totals.subtotal
    /\ result.totals.points_earned > 0

\* the roles that may cancel a sale
MayCancel == {"admin", "pharmacien"}

\* C24: a step of SaleController.cancel_sale taken by a session with nobody
\* logged in, or whose user is a 'vendeur', is a refusal: it returns failure
\* and leaves every sale, stock quantity, ledger row and customer as they
\* were; a sale becomes 'cancelled' only on a step of a cancel_sale called by
\* an administrator or a pharmacist.
C24_CancelNeedsPermission ==
    [][/\ \A s \in Sessions :
             CancelStep(s) /\ current_user[s] \notin MayCancel
                => /\ RefusedUnchanged(s)
                   /\ result'.op = "cancel_sale"
       /\ \A id \in 1..Len(sales) :
             sales'[id].status # sales[id].status
                => \E s \in Sessions :
                      /\ CancelStep(s)
                      /\ current_user[s] \in MayCancel
                      /\ sales'[id].status = "cancelled"]_vars

\* a 'vendeur' asked to cancel a completed sale and was refused
C24_Witness ==
    /\ result.op = "cancel_sale" /\ ~result.ok /\ result.msg = "permission"
    /\ current_user[result.session] = "vendeur"
    /\ result.sale_id \in 1..Len(sales)
    /\ sales[result.sale_id].status = "completed"
    /\ monitor[result.sale_id].validated

\* the discount of the tier that the balance stored for client c reaches
StoredDiscount(c) ==
    get_client_discount([id |-> c, loyalty_points |-> clients[c].loyalty_points])

\* C25: when validate_sale computes the totals of a cart with a customer, the
\* discount percentage is that of the highest active tier whose min_points
\* is <= the loyalty_points the clients table holds for the customer at that
\* moment (0 when there is none), whatever the balance was when set_client
\* attached the customer; the sale row is inserted with that percentage.
C25_DiscountFromStoredBalance ==
    [][\A s \in Sessions :
          /\ /\ pc[s] = "idle"
             /\ pc'[s] = "v_insert"
             /\ cart[s].client # NoClient
             => local'[s].totals.discount_percentage = StoredDiscount(cart[s].client.id)
          /\ Leaves(s, "v_insert") /\ Len(sales') = Len(sales) + 1
             => sales'[Len(sales')].discount_percentage
                   = local[s].totals.discount_percentage]_vars

LedgerSum(m) ==
    SumSeq([i \in 1..Len(movements) |->
               IF movements[i].medicament_id = m THEN movements[i].quantity ELSE 0])

\* C27: whenever no operation is in progress in any session, the stock of
\* every medicament is its initial quantity (the 'entry' of its creation)
\* plus the signed quantities of all its ledger rows.
C27_StockMatchesLedger ==
    (\A s \in Sessions : pc[s] = "idle")
        => \A m \in Meds : stock[m] = MaxStock + LedgerSum(m)

\* C28: for every sale whose commit returned success, however two
\* cancel_sale calls on it interleave, at most one call returns success, the
\* line quantities are given back to the stock at most once per line, and
\* the points the sale earned are taken from the customer at most once.
C28_CancelAtMostOnce ==
    \A id \in 1..Len(sales) :
        monitor[id].validated
            => /\ monitor[id].cancels <= 1
               /\ monitor[id].restocks <= Len(get_lines(id))
               /\ monitor[id].deductions <= 1

\* the points earned by the sales of client c that are 'completed'
EarnedCompleted(c) ==
    SumSeq([i \in 1..Len(sales) |->
               IF sales[i].client_id = c /\ sales[i].status = "completed"
               THEN sales[i].loyalty_points_earned ELSE 0])

\* C29: whenever no operation is in progress in any session, the
\* loyalty_points of every customer are the balance the customer started
\* with plus the points earned by the customer's sales that are 'completed',
\* and are not negative.
C29_PointsMatchCompletedSales ==
    (\A s \in Sessions : pc[s] = "idle")
        => \A c \in Clients :
              /\ clients[c].loyalty_points = points0[c] + EarnedCompleted(c)
              /\ clients[c].loyalty_points >= 0

\* C30: when validate_sale returns failure because a storage call of its
\* commit sequence raised, nothing that call wrote is left: the sale it
\* inserted, if any, is not in table sales and has no line in sale_lines, and
\* stock, ledger and customers are as the call found them.
C30_FailedCommitLeavesNothing ==
    [][\A s \in Sessions :
          /\ ValidateStep(s)
          /\ result' # NoResult
          /\ result'.op = "validate_sale"
          /\ ~result'.ok
          /\ result'.msg = "error"
          => IF result'.raised = "insert"
             THEN db' = db
             ELSE /\ Len(sales') < result'.sale_id
                  /\ \A k \in 1..Len(sale_lines') :
                        sale_lines'[k].sale_id # result'.sale_id
                  /\ <<stock, movements, clients>>' = <<stock, movements, clients>>]_vars

====
